---- MODULE Spec2Model ----
(***************************************************************************)
(* A model of the particle-swarm optimisers of Adaptive-PSO-FL:            *)
(*   - GlobalBestPSO_entropy.optimize (pyswarms_gbest/                     *)
(*     Pyswarms_entropy_gbest.py), the entropy-adaptive optimiser built on *)
(*     the pyswarms backend (compute_pbest, Star.compute_gbest,            *)
(*     compute_velocity, compute_position, BoundaryHandler "periodic");    *)
(*   - the variant runners of algorithms.py (CPSO/SPSO/HCLPSO/EPSO), which *)
(*     work on module-level swarm arrays;                                  *)
(*   - the periodic boundary handler applied to single coordinates, and    *)
(*     the recalibration block of optimize applied to options and label    *)
(*     lists drawn from small sets.                                        *)
(* A behaviour drives one of these parts (variable unit).                  *)
(*                                                                         *)
(* Scaling.  The search space has one dimension and positions, velocities  *)
(* and costs live on the integer grid.  Coefficients (c1, c2, w, the       *)
(* random factors r1, r2 and the heterogeneity factor) are counted in      *)
(* units of 1/Scale = 0.05, so 0.1 is Tenth = 2 units, 0.2 is 4 units and  *)
(* 1.0 is Scale = 20 units.  The swarm of 50 particles and the period of   *)
(* 100 iterations are scaled down (SuperNParticles, RecalPeriod).          *)
(***************************************************************************)
EXTENDS Integers, Sequences, FiniteSets, TLC

\* ------------------------------------------------------------------ bounds
MaxIters      == 7   \* largest iters argument of optimize
MaxCalls      == 2   \* optimize calls on one optimizer object
MaxRecals     == 3   \* recalibrations applied in a row to one options dictionary
NumRuns       == 1   \* params.num_runs
NumIterations == 2   \* params.num_iterations

\* ------------------------------------------------------- scaled constants
SuperNParticles == 2   \* the literal n_particles=50 passed to SwarmOptimizer.__init__
RecalPeriod     == 3   \* the literal 100 of "i%100 == False"
Upper           == 1   \* ub of gbest.py (600), the upper bound of the search space
NumParticles    == 2   \* params.num_particles

\* A call on a reused optimizer passes the objective of the call before it
\* and runs for less than one recalibration period.
ReuseIters == RecalPeriod - 1

Scale == 4 * 5         \* one unit of a coefficient is 1/Scale
Tenth == Scale \div 10 \* 0.1 in coefficient units

\* --------------------------------------------------------- cost values
\* Costs are IEEE doubles in the program.  Finite costs are integers here,
\* Inf stands for +infinity and NaN for a not-a-number; every comparison
\* goes through Lt so that a comparison with NaN is false.
Inf    == 10000
NaN    == Inf + 1
Raises == Inf + 2     \* the objective raised instead of returning a cost

Lt(a, b) == a # NaN /\ b # NaN /\ a < b

Abs(x) == IF x < 0 THEN -x ELSE x

\* a / b rounded to the nearest grid point (b > 0).
RoundDiv(a, b) == IF a >= 0 THEN (2 * a + b) \div (2 * b) ELSE -((2 * (-a) + b) \div (2 * b))

\* np.min over a cost vector: a NaN entry propagates.
NpMin(c) ==
    IF \E p \in DOMAIN c : c[p] = NaN THEN NaN
    ELSE CHOOSE m \in {c[p] : p \in DOMAIN c} : \A p \in DOMAIN c : m <= c[p]

\* np.argmin over a cost vector: the first NaN if there is one, otherwise
\* the first index of the minimum.
NpArgMin(c) ==
    IF \E p \in DOMAIN c : c[p] = NaN
    THEN CHOOSE p \in DOMAIN c : c[p] = NaN /\ \A q \in DOMAIN c : c[q] = NaN => p <= q
    ELSE CHOOSE p \in DOMAIN c : c[p] = NpMin(c) /\ \A q \in DOMAIN c : c[q] = NpMin(c) => p <= q

\* ----------------------------------------------------- objective functions
\* The objective is an opaque callable.  Sphere is benchFunctions.Sphere;
\* Zero is the constant objective; Anomalous returns NaN and +infinity at
\* some points; Raising raises an exception at one point.
Objectives == {"Zero", "Sphere", "Anomalous", "Raising"}

Sphere(x) == x * x

Objective(f, x) ==
    CASE f = "Zero"      -> 0
      [] f = "Sphere"    -> Sphere(x)
      [] f = "Anomalous" -> IF x = 0 THEN NaN ELSE IF x < 0 THEN Inf ELSE Sphere(x)
      [] f = "Raising"   -> IF x = -Upper THEN Raises ELSE Sphere(x)

\* ------------------------------------------- pyswarms backend operators
\* Search-space bounds handed to the optimizer (gbest.py: lb, ub).
Lower == -Upper
Pos   == Lower..Upper

\* best_pos of a swarm before any global best was found (np.array([])).
NoPos == Upper + 1000

\* compute_pbest with <= in place of <: a tie replaces the personal best.
compute_pbest_on_ties(pos, cur, pbpos, pbcost) ==
    [pos  |-> [p \in DOMAIN pos |-> IF Lt(pbcost[p], cur[p]) \/ cur[p] = NaN
                                    THEN pbpos[p] ELSE pos[p]],
     cost |-> [p \in DOMAIN pos |-> IF Lt(pbcost[p], cur[p]) \/ cur[p] = NaN
                                    THEN pbcost[p] ELSE cur[p]]]

\* compute_pbest: a personal best is replaced only where the current cost
\* is strictly below the stored personal best cost.
compute_pbest(pos, cur, pbpos, pbcost) ==
    [pos  |-> [p \in DOMAIN pos |-> IF Lt(cur[p], pbcost[p]) THEN pos[p] ELSE pbpos[p]],
     cost |-> [p \in DOMAIN pos |-> IF Lt(cur[p], pbcost[p]) THEN cur[p] ELSE pbcost[p]]]

\* compute_gbest without the comparison with the stored best: the best of
\* the personal bests is taken whatever the swarm's best_cost was.
compute_gbest_unguarded(pbpos, pbcost, bpos, bcost) ==
    [pos |-> pbpos[NpArgMin(pbcost)], cost |-> NpMin(pbcost)]

\* Star.compute_gbest: the stored global best is replaced only when the
\* smallest personal best cost is strictly below it.
compute_gbest(pbpos, pbcost, bpos, bcost) ==
    IF Lt(NpMin(pbcost), bcost)
    THEN [pos |-> pbpos[NpArgMin(pbcost)], cost |-> NpMin(pbcost)]
    ELSE [pos |-> bpos, cost |-> bcost]

\* ftol is the rational FtolNum / FtolDen; a negative numerator stands for
\* the default -infinity (the measure is then below every distance).
FtolDen    == 1000 * 1000
FtolNegInf == 0 - 1
FtolMicro  == 0 + 1     \* ftol = 1e-6

\* The ftol test with |ftol| in the measure.
FtolDelta_abs_ftol(best, yet, tol) ==
    IF yet = Inf \/ best = Inf THEN FALSE
    ELSE Abs(best - yet) * FtolDen < Abs(tol) * (1 + Abs(yet))

\* delta = |best_cost - best_cost_yet_found| < ftol * (1 + |best_cost_yet_found|).
\* With best_cost_yet_found = inf both sides are inf or nan: the test is false.
FtolDelta(best, yet, tol) ==
    IF yet = Inf \/ best = Inf THEN FALSE
    ELSE Abs(best - yet) * FtolDen < tol * (1 + Abs(yet))

\* A plain list in place of the deque: nothing is dropped.
DequeAppend_unbounded(w, d, n) == Append(w, d)

\* deque(maxlen = n).append
DequeAppend(w, d, n) ==
    IF n = 0 THEN <<>>
    ELSE IF Len(w) < n THEN Append(w, d) ELSE Append(Tail(w), d)

All(w) == \A k \in 1..Len(w) : w[k]

\* The label with the tests made from the other end (diff < -0.2 gives 0,
\* diff < 0.2 gives 1, else 2): a nan diff then falls to 2.
Label_nan_worsened(cur, prev) ==
    IF cur = NaN \/ prev = NaN THEN 2
    ELSE IF cur = Inf /\ prev = Inf THEN 2
    ELSE IF cur = Inf THEN 2
    ELSE IF prev = Inf THEN 0
    ELSE IF 5 * (cur - prev) > 1 THEN 2
    ELSE IF 5 * (cur - prev) > -1 THEN 1
    ELSE 0

\* The label appended to list_R for one particle: diff = current_cost -
\* previous_pbest_cost, 2 if diff > 0.2, 1 if diff > -0.2, else 0.  With
\* costs on the integer grid diff > 0.2 is 5*diff > 1.  inf - inf and any
\* nan give a nan diff, for which both tests are false.
Label(cur, prev) ==
    IF cur = NaN \/ prev = NaN THEN 0
    ELSE IF cur = Inf /\ prev = Inf THEN 0
    ELSE IF cur = Inf THEN 2
    ELSE IF prev = Inf THEN 0
    ELSE IF 5 * (cur - prev) > 1 THEN 2
    ELSE IF 5 * (cur - prev) > -1 THEN 1
    ELSE 0

Labels == 0..2
EmptyList == [k \in Labels |-> 0]

\* list_R after the labels of one iteration were appended; the list is kept
\* as the number of occurrences of each label (what Counter(lst) sees).
AppendLabels(lst, cur, prev) ==
    [k \in Labels |-> lst[k] + Cardinality({p \in DOMAIN cur : Label(cur[p], prev[p]) = k})]

\* round(log2(k) * 10^6) for k = 1..40
Log2Micro ==
    << 0, 1000000, 1584963, 2000000, 2321928, 2584963, 2807355, 3000000,
       3169925, 3321928, 3459432, 3584963, 3700440, 3807355, 3906891, 4000000,
       4087463, 4169925, 4247928, 4321928, 4392317, 4459432, 4523562, 4584963,
       4643856, 4700440, 4754888, 4807355, 4857981, 4906891, 4954196, 5000000,
       5044394, 5087463, 5129283, 5169925, 5209453, 5247928, 5285402, 5321928 >>

NLog(n) == IF n = 0 THEN 0 ELSE n * Log2Micro[n]

\* entropy(lst) in millionths of a bit:
\*   sum(-p * log2(p)) = log2(n) - sum(n_k * log2(n_k)) / n.
entropy(lst) ==
    LET n == lst[0] + lst[1] + lst[2]
    IN  IF n = 0 THEN 0
        ELSE (NLog(n) - NLog(lst[0]) - NLog(lst[1]) - NLog(lst[2])) \div n

Max(a, b) == IF a >= b THEN a ELSE b

\* The recalibration with the third branch a copy of the second.
Recalibrate_third_as_second(opts, lst) ==
    LET R == entropy(lst)
    IN  IF R > 800000
        THEN [opts |-> [opts EXCEPT !.c1 = Max(Tenth, opts.c1 + Scale),
                                    !.c2 = Max(Tenth, opts.c2 - Scale)],
              lst |-> lst]
        ELSE IF R > 300000
        THEN [opts |-> [opts EXCEPT !.c1 = Max(Tenth, opts.c1 + 2 * Tenth),
                                    !.c2 = Max(Tenth, opts.c2 - 2 * Tenth)],
              lst |-> lst]
        ELSE [opts |-> [opts EXCEPT !.c1 = Max(Tenth, opts.c1 - Scale),
                                    !.c2 = Max(Tenth, opts.c2 + Scale)],
              lst |-> EmptyList]

\* The recalibration with the floor missing in the last branch.
Recalibrate_unfloored(opts, lst) ==
    LET R == entropy(lst)
    IN  IF R > 800000
        THEN [opts |-> [opts EXCEPT !.c1 = Max(Tenth, opts.c1 + Scale),
                                    !.c2 = Max(Tenth, opts.c2 - Scale)],
              lst |-> lst]
        ELSE IF R > 600000
        THEN [opts |-> [opts EXCEPT !.c1 = Max(Tenth, opts.c1 + 2 * Tenth),
                                    !.c2 = Max(Tenth, opts.c2 - 2 * Tenth)],
              lst |-> lst]
        ELSE IF R > 300000
        THEN [opts |-> [opts EXCEPT !.c1 = Max(Tenth, opts.c1 + 2 * Tenth),
                                    !.c2 = Max(Tenth, opts.c2 + 2 * Tenth)],
              lst |-> lst]
        ELSE [opts |-> [opts EXCEPT !.c1 = opts.c1 - Scale,
                                    !.c2 = opts.c2 + Scale],
              lst |-> EmptyList]

\* The recalibration of (c1, c2) from the entropy R of list_R; only the
\* last branch empties list_R.
Recalibrate(opts, lst) ==
    LET R == entropy(lst)
    IN  IF R > 800000
        THEN [opts |-> [opts EXCEPT !.c1 = Max(Tenth, opts.c1 + Scale),
                                    !.c2 = Max(Tenth, opts.c2 - Scale)],
              lst |-> lst]
        ELSE IF R > 600000
        THEN [opts |-> [opts EXCEPT !.c1 = Max(Tenth, opts.c1 + 2 * Tenth),
                                    !.c2 = Max(Tenth, opts.c2 - 2 * Tenth)],
              lst |-> lst]
        ELSE IF R > 300000
        THEN [opts |-> [opts EXCEPT !.c1 = Max(Tenth, opts.c1 + 2 * Tenth),
                                    !.c2 = Max(Tenth, opts.c2 + 2 * Tenth)],
              lst |-> lst]
        ELSE [opts |-> [opts EXCEPT !.c1 = Max(Tenth, opts.c1 - Scale),
                                    !.c2 = Max(Tenth, opts.c2 + Scale)],
              lst |-> EmptyList]

\* The test with the recalibration made in the first iteration only.
RecalibrationDue_first_only(k) == k = 0

\* "if i%100 == False": Python compares the remainder with False as with 0,
\* so the test is true at every iteration index divisible by the period.
RecalibrationDue(k) == k % RecalPeriod = 0

\* Values of the random factors r1, r2 (uniform in [0, 1)): 0.0 and 0.95.
RSet == {0, Scale - 1}

\* One coordinate of the velocity update
\*   w*v + c1*r1*(pbest - x) + c2*r2*(gbest - x), scaled by fac (1.0 in
\* pyswarms), rounded to the grid.
VelocityUpdate(w, c1, c2, fac, v, x, pb, gb, r1, r2) ==
    RoundDiv(w * v * Scale * Scale
               + c1 * r1 * (pb - x) * fac + c2 * r2 * (gb - x) * fac,
             Scale * Scale * Scale)

\* The wrap-around applied to every coordinate, in bounds or not:
\*   lb + ((x - lb) mod (ub - lb)).
periodic_wrap_all(x, lb, ub) == lb + ((x - lb) % Abs(ub - lb))

\* BoundaryHandler(strategy="periodic") on one coordinate: only a
\* coordinate outside [lb, ub] is wrapped.
periodic(x, lb, ub) ==
    IF x < lb THEN ub - ((lb - x) % Abs(ub - lb))
    ELSE IF x > ub THEN lb + ((x - ub) % Abs(ub - lb))
    ELSE x

\* compute_position: position + velocity, then the boundary handler.
compute_position(pos, vel) ==
    [p \in DOMAIN pos |-> periodic(pos[p] + vel[p], Lower, Upper)]

\* ------------------------------------------------------------- state
VARIABLES
    unit,                 \* which part of the program the behaviour drives
    \* GlobalBestPSO_entropy object (gbest.py: optimizerEntrpy)
    n_particles,          \* the n_particles argument of the constructor
    swarm_size,           \* self.swarm_size[0] = self.n_particles
    options,              \* self.options: c1, c2, w
    ftol, ftol_iter,      \* self.ftol, self.ftol_iter
    position, velocity,   \* self.swarm.position, self.swarm.velocity
    pbest_pos, pbest_cost,
    best_pos, best_cost,
    current_cost,
    swarm_options,        \* self.swarm.options
    \* one optimize call
    workers,              \* the n_processes this caller passes to optimize
    pc,                   \* "idle", "loop", "returned", "raised"
    calls,                \* optimize calls made on the object so far
    objective_func, iters, n_processes,
    pool,                 \* "none", "open", "closed"
    i,                    \* loop index of the next iteration
    broke,                \* the loop was left by the ftol break
    previous_pbest_cost, cost_history, list_R, ftol_history,
    \* algorithms.py: module-level swarm arrays and the runner in progress
    particles_position, particles_velocity, personal_best,
    r_pc,                 \* "idle", "plot", "running", "raised", "done"
    func_bench,           \* the argument of plot
    run, variant,         \* loop index of plot, index of the next runner
    iteration,            \* loop index of the runner in progress
    fac,                  \* factor the runner passes to compute_global_best
    global_best,          \* global_best of the runner in progress
    gbest_values,         \* best costs the runner recorded, one per iteration
    \* BoundaryHandler applied to one coordinate
    bh_lb, bh_ub, bh_x, bh_once, bh_twice, bh_pc,
    \* the recalibration block of optimize applied to an options dictionary
    rc_options,           \* self.options
    rc_list,              \* list_R after the block
    rc_before,            \* self.options before the last recalibration
    rc_R,                 \* the entropy R of the last recalibration
    rc_count              \* recalibrations applied so far

optVars == <<n_particles, swarm_size, options, ftol, ftol_iter, position,
             velocity, pbest_pos, pbest_cost, best_pos, best_cost,
             current_cost, swarm_options, workers, pc, calls, objective_func, iters,
             n_processes, pool, i, broke, previous_pbest_cost, cost_history,
             list_R, ftol_history>>

runVars == <<particles_position, particles_velocity, personal_best, r_pc,
             func_bench, run, variant, iteration, fac, global_best,
             gbest_values>>

bhVars == <<bh_lb, bh_ub, bh_x, bh_once, bh_twice, bh_pc>>

rcVars == <<rc_options, rc_list, rc_before, rc_R, rc_count>>

vars == <<unit, optVars, runVars, bhVars, rcVars>>

\* SwarmOptimizer.__init__ is called with the literal n_particles=50,
\* whatever the caller passed.
SwarmSize(n) == SuperNParticles

Particles == 0..(swarm_size - 1)

\* The swarm size asked for: gbest.py asks for three times the literal.
NParticlesArgs == {3 * SuperNParticles}
DefaultOptions == [c1 |-> 10, c2 |-> 6, w |-> 18]    \* c1=0.5,  c2=0.3, w=0.9
SmallC1Options == [c1 |-> 1,  c2 |-> 6, w |-> 18]    \* c1=0.05, c2=0.3, w=0.9
\* Callers tried: how each constructs the optimizer and the n_processes it
\* passes to optimize (0 stands for None).  The first is gbest.py.
Callers ==
    {[options |-> DefaultOptions, ftol |-> FtolNegInf, ftol_iter |-> 1, n_processes |-> 0],
     [options |-> DefaultOptions, ftol |-> FtolMicro,  ftol_iter |-> 5, n_processes |-> 2],
     [options |-> SmallC1Options, ftol |-> FtolMicro,  ftol_iter |-> 1, n_processes |-> 0]}

\* The state after GlobalBestPSO_entropy(...): reset() creates the swarm
\* with positions drawn in the bounds, pbest_pos = position, best_cost =
\* inf, and empty pbest_cost / current_cost / best_pos.
InitOptimizer(n, opts, rule, pos0) ==
    /\ n_particles = n
    /\ swarm_size = SwarmSize(n)
    /\ options = opts
    /\ ftol = rule.ftol
    /\ ftol_iter = rule.ftol_iter
    /\ position = pos0
    /\ velocity = [p \in DOMAIN pos0 |-> 0]
    /\ pbest_pos = pos0
    /\ pbest_cost = <<>>
    /\ best_pos = NoPos
    /\ best_cost = Inf
    /\ current_cost = <<>>
    /\ swarm_options = opts
    /\ pc = "idle"
    /\ calls = 0
    /\ objective_func = "Zero"
    /\ iters = 0
    /\ workers = rule.n_processes
    /\ n_processes = 0
    /\ pool = "none"
    /\ i = 0
    /\ broke = FALSE
    /\ previous_pbest_cost = <<>>
    /\ cost_history = <<>>
    /\ list_R = EmptyList
    /\ ftol_history = <<>>

\* The state after "import algorithms": positions drawn in (-600, 600),
\* zero velocities, personal_best a copy of the positions.
InitRunner(pos0) ==
    /\ particles_position = pos0
    /\ particles_velocity = [p \in DOMAIN pos0 |-> 0]
    /\ personal_best = pos0
    /\ r_pc = "idle"
    /\ func_bench = "Zero"
    /\ run = 0
    /\ variant = 1
    /\ iteration = 0
    /\ fac = Scale
    /\ global_best = NoPos
    /\ gbest_values = <<>>

\* The bounds of gbest.py as they are, and two small search spaces.
GbestUb == 600
BoundsTried == {<<-GbestUb, GbestUb>>, <<Lower, Upper>>, <<0, 3>>}

\* Coordinates tried: from more than one width below lb to more than one
\* width above ub.
CoordsTried(lb, ub) == (lb - (ub - lb) - 10)..(ub + (ub - lb) + 10)

InitBoundary(lb, ub, x) ==
    /\ bh_lb = lb
    /\ bh_ub = ub
    /\ bh_x = x
    /\ bh_once = x
    /\ bh_twice = x
    /\ bh_pc = "new"

\* Options handed to the recalibration: c1, c2 from 0.05 to 1.5, w = 0.9.
OptionsTried == {[c1 |-> a, c2 |-> b, w |-> 18] : a \in {1, 10, 30}, b \in {1, 6, 30}}

\* Labels one recalibration period adds to list_R (occurrences of 0, 1, 2):
\* entropies 1.58, 0.72, 0.54, 0 and 0.
LabelsTried ==
    {[k \in Labels |-> 1],
     [k \in Labels |-> IF k = 0 THEN 4 ELSE IF k = 1 THEN 1 ELSE 0],
     [k \in Labels |-> IF k = 0 THEN 0 ELSE IF k = 1 THEN 7 ELSE 1],
     [k \in Labels |-> IF k = 0 THEN 2 ELSE 0],
     [k \in Labels |-> IF k = 2 THEN 2 ELSE 0]}

InitRecalibration(opts) ==
    /\ rc_options = opts
    /\ rc_list = EmptyList
    /\ rc_before = opts
    /\ rc_R = 0
    /\ rc_count = 0

\* A behaviour drives one part of the program; the other parts stay in a
\* fixed initial state.
RestOptimizer ==
    InitOptimizer(3 * SuperNParticles, DefaultOptions,
                  [ftol |-> FtolNegInf, ftol_iter |-> 1, n_processes |-> 0],
                  [p \in 0..(SuperNParticles - 1) |-> 0])
RestRunner == InitRunner([p \in 0..(NumParticles - 1) |-> 0])
RestBoundary == InitBoundary(Lower, Upper, 0)
RestRecalibration == InitRecalibration(DefaultOptions)

InitOptimizerUnit ==
    /\ unit = "optimizer"
    /\ \E n \in NParticlesArgs, c \in Callers :
         \E pos0 \in [0..(SwarmSize(n) - 1) -> Pos] :
            InitOptimizer(n, c.options, c, pos0)
    /\ RestRunner
    /\ RestBoundary
    /\ RestRecalibration

InitRunnerUnit ==
    /\ unit = "runner"
    /\ \E pos0 \in [0..(NumParticles - 1) -> Pos] : InitRunner(pos0)
    /\ RestOptimizer
    /\ RestBoundary
    /\ RestRecalibration

InitBoundaryUnit ==
    /\ unit = "boundary"
    /\ \E b \in BoundsTried : \E x \in CoordsTried(b[1], b[2]) : InitBoundary(b[1], b[2], x)
    /\ RestOptimizer
    /\ RestRunner
    /\ RestRecalibration

InitRecalibrationUnit ==
    /\ unit = "recalibration"
    /\ \E opts \in OptionsTried : InitRecalibration(opts)
    /\ RestOptimizer
    /\ RestRunner
    /\ RestBoundary

Init == InitOptimizerUnit \/ InitRunnerUnit \/ InitBoundaryUnit \/ InitRecalibrationUnit

\* ------------------------------------------------------ optimize(...)
\* self.swarm.options = self.oh(self.options, ...) with no strategy set: the
\* handler hands back either the dictionary self.options itself, which the
\* recalibration then changes in place (after), or a copy of it taken
\* before the recalibration (before).  compute_velocity reads the result.
OptionsHandled(before, after) == {before, after}

IterChoices == {0, ReuseIters, MaxIters}

\* optimize, lines 187-213: the pool is created and the per-call state is
\* initialised; swarm position, velocity, best_pos and best_cost are kept.
OptimizeCall(f, n, np) ==
    /\ unit = "optimizer"
    /\ pc \in {"idle", "returned", "raised"}
    /\ calls < MaxCalls
    /\ calls > 0 => n <= ReuseIters /\ f = objective_func
    /\ calls' = calls + 1
    /\ objective_func' = f
    /\ iters' = n
    /\ n_processes' = np
    /\ pool' = IF np = 0 THEN "none" ELSE "open"
    /\ previous_pbest_cost' = [p \in Particles |-> Inf]
    /\ cost_history' = <<>>
    /\ list_R' = EmptyList
    /\ pbest_cost' = [p \in Particles |-> Inf]
    /\ ftol_history' = <<>>
    /\ i' = 0
    /\ broke' = FALSE
    /\ pc' = "loop"
    /\ UNCHANGED <<unit, runVars, bhVars, rcVars, workers, n_particles, swarm_size, options, ftol, ftol_iter,
                   position, velocity, pbest_pos, best_pos, best_cost,
                   current_cost, swarm_options>>

\* The objective raises while the swarm is evaluated (line 217): optimize
\* is left by the exception, nothing after line 217 runs.
EvaluationRaises ==
    /\ unit = "optimizer"
    /\ pc = "loop" /\ ~broke /\ i < iters
    /\ \E p \in Particles : Objective(objective_func, position[p]) = Raises
    /\ pc' = "raised"
    /\ UNCHANGED <<unit, runVars, bhVars, rcVars, workers, n_particles, swarm_size, options, ftol, ftol_iter,
                   position, velocity, pbest_pos, pbest_cost, best_pos,
                   best_cost, current_cost, swarm_options, calls,
                   objective_func, iters, n_processes, pool, i, broke,
                   previous_pbest_cost, cost_history, list_R, ftol_history>>

\* One iteration of the loop, lines 214-298.
Iterate ==
    /\ unit = "optimizer"
    /\ pc = "loop" /\ ~broke /\ i < iters
    /\ \A p \in Particles : Objective(objective_func, position[p]) # Raises
    /\ LET cur   == [p \in Particles |-> Objective(objective_func, position[p])]
           pb    == compute_pbest(position, cur, pbest_pos, pbest_cost)
           yet   == best_cost
           gb    == compute_gbest(pb.pos, pb.cost, best_pos, best_cost)
           delta == FtolDelta(gb.cost, yet, ftol)
           win   == DequeAppend(ftol_history, delta, ftol_iter)
           stop  == i >= ftol_iter /\ All(win)
           lst   == AppendLabels(list_R, cur, previous_pbest_cost)
           rec   == IF RecalibrationDue(i) THEN Recalibrate(options, lst)
                    ELSE [opts |-> options, lst |-> lst]
       IN  /\ current_cost' = cur
           /\ pbest_pos' = pb.pos
           /\ pbest_cost' = pb.cost
           /\ best_pos' = gb.pos
           /\ best_cost' = gb.cost
           /\ cost_history' = Append(cost_history, gb.cost)
           /\ ftol_history' = win
           /\ IF stop
              THEN \* break (line 246)
                   /\ broke' = TRUE
                   /\ UNCHANGED <<swarm_options, options, list_R,
                                  previous_pbest_cost, velocity, position, i, pc>>
              ELSE /\ broke' = FALSE
                   /\ options' = rec.opts
                   /\ list_R' = rec.lst
                   /\ previous_pbest_cost' = cur
                   /\ \E so \in OptionsHandled(options, rec.opts) :
                      /\ swarm_options' = so
                      /\ IF gb.pos = NoPos
                         THEN \* best_pos is still the empty array: the social
                              \* term of compute_velocity cannot be broadcast
                              /\ pc' = "raised"
                              /\ UNCHANGED <<velocity, position, i>>
                         ELSE \E r1, r2 \in [Particles -> RSet] :
                             LET vel == [p \in Particles |->
                                           VelocityUpdate(so.w, so.c1, so.c2,
                                                          Scale, velocity[p], position[p],
                                                          pb.pos[p], gb.pos, r1[p], r2[p])]
                             IN  /\ velocity' = vel
                                 /\ position' = compute_position(position, vel)
                                 /\ i' = i + 1
                                 /\ pc' = "loop"
    /\ UNCHANGED <<unit, runVars, bhVars, rcVars, workers, n_particles, swarm_size, ftol, ftol_iter, calls,
                   objective_func, iters, n_processes, pool>>

\* Lines 299-314 after the loop: the final best cost is copied, the pool is
\* closed when one was made, and the results are returned.  best_cost is
\* still the Python float inf of a new swarm when no iteration ever found a
\* cost below inf, and float has no copy(): the call raises.
Return ==
    /\ unit = "optimizer"
    /\ pc = "loop" /\ (broke \/ i >= iters)
    /\ IF best_cost = Inf
       THEN pc' = "raised" /\ pool' = pool
       ELSE /\ pc' = "returned"
            /\ pool' = IF n_processes # 0 THEN "closed" ELSE pool
    /\ UNCHANGED <<unit, runVars, bhVars, rcVars, workers, n_particles, swarm_size, options, ftol, ftol_iter,
                   position, velocity, pbest_pos, pbest_cost, best_pos,
                   best_cost, current_cost, swarm_options, calls,
                   objective_func, iters, n_processes, i, broke,
                   previous_pbest_cost, cost_history, list_R, ftol_history>>

\* ------------------------------------------------- algorithms.py runners
\* params.c1, params.c2, params.w
ParamOptions == DefaultOptions

RunnerParticles == 0..(NumParticles - 1)

\* plot calls the runners in this order for every run.
VariantOrder == <<"CPSO", "SPSO", "HCLPSO", "EPSO">>

\* Values of uniform(1 - alpha, 1 + alpha), alpha = 0.1: 0.9, 1.0, 1.1.
HeterogeneityFactors == {Scale - Tenth, Scale, Scale + Tenth}

\* The factor a runner hands to compute_global_best.
Factors(v) ==
    CASE v = "CPSO"   -> {Scale}
      [] v = "SPSO"   -> {Scale}
      [] v = "HCLPSO" -> HeterogeneityFactors
      [] v = "EPSO"   -> {ParamOptions.w}

\* np.argmin([func_bench(p) for p in personal_best])
GlobalBestIdx(f, pbest) == NpArgMin([p \in DOMAIN pbest |-> Objective(f, pbest[p])])

EvalRaises(f, xs) == \E p \in DOMAIN xs : Objective(f, xs[p]) = Raises

\* The loop of compute_global_best over the particles k, k+1, ...: each
\* particle is moved, its personal best is replaced on a strictly lower
\* cost and the global best follows.  s holds the arrays, the running
\* global_best and whether func_bench raised (the loop then stops where it
\* is, the arrays keep what was written).
RECURSIVE MoveParticles(_, _, _, _, _, _)
MoveParticles(k, s, f, fc, r1, r2) ==
    IF k = NumParticles \/ s.raised THEN s
    ELSE LET v == VelocityUpdate(ParamOptions.w, ParamOptions.c1, ParamOptions.c2, fc,
                                 s.vel[k], s.pos[k], s.pb[k], s.gb, r1[k], r2[k])
             x == s.pos[k] + v
             moved == [s EXCEPT !.vel[k] = v, !.pos[k] = x]
         IN  IF Objective(f, x) = Raises
             THEN [moved EXCEPT !.raised = TRUE]
             ELSE IF Lt(Objective(f, x), Objective(f, s.pb[k]))
             THEN MoveParticles(k + 1,
                                [moved EXCEPT !.pb[k] = x,
                                              !.gb = IF Lt(Objective(f, x), Objective(f, s.gb))
                                                     THEN x ELSE s.gb],
                                f, fc, r1, r2)
             ELSE MoveParticles(k + 1, moved, f, fc, r1, r2)

\* compute_global_best(fac, func_bench) on the module-level arrays.
compute_global_best(fc, f, pos, vel, pbest, r1, r2) ==
    IF EvalRaises(f, pbest)
    THEN [pos |-> pos, vel |-> vel, pb |-> pbest, gb |-> NoPos, raised |-> TRUE]
    ELSE MoveParticles(0, [pos |-> pos, vel |-> vel, pb |-> pbest,
                           gb |-> pbest[GlobalBestIdx(f, pbest)], raised |-> FALSE],
                       f, fc, r1, r2)

\* plotting.plot(func_bench) is entered.
plot(f) ==
    /\ unit = "runner"
    /\ r_pc = "idle"
    /\ func_bench' = f
    /\ run' = 0
    /\ variant' = 1
    /\ r_pc' = "plot"
    /\ UNCHANGED <<unit, optVars, bhVars, rcVars, particles_position, particles_velocity,
                   personal_best, iteration, fac, global_best, gbest_values>>

\* A runner is entered (CPSOAlgorithm, SPSOAlgorithm, HCLPSOAlgorithm,
\* EPSOAlgorithm): all but CPSO first take the argmin of the personal bests;
\* HCLPSO draws its heterogeneity factor.  The swarm arrays are the module's.
RunnerCall ==
    /\ unit = "runner"
    /\ r_pc = "plot"
    /\ run < NumRuns
    /\ LET v == VariantOrder[variant]
       IN  IF v # "CPSO" /\ EvalRaises(func_bench, personal_best)
           THEN /\ r_pc' = "raised"
                /\ UNCHANGED <<fac, global_best, gbest_values, iteration>>
           ELSE /\ \E fc \in Factors(v) : fac' = fc
                /\ global_best' = IF v = "CPSO" THEN NoPos
                                  ELSE personal_best[GlobalBestIdx(func_bench, personal_best)]
                /\ gbest_values' = <<>>
                /\ iteration' = 0
                /\ r_pc' = "running"
    /\ UNCHANGED <<unit, optVars, bhVars, rcVars, particles_position, particles_velocity,
                   personal_best, func_bench, run, variant>>

\* One iteration of a runner: compute_global_best, then the cost of the
\* returned global best is recorded.
RunnerIterate ==
    /\ unit = "runner"
    /\ r_pc = "running"
    /\ iteration < NumIterations
    /\ \E r1, r2 \in [RunnerParticles -> RSet] :
         LET s == compute_global_best(fac, func_bench, particles_position,
                                      particles_velocity, personal_best, r1, r2)
         IN  /\ particles_position' = s.pos
             /\ particles_velocity' = s.vel
             /\ personal_best' = s.pb
             /\ IF s.raised
                THEN /\ r_pc' = "raised"
                     /\ UNCHANGED <<global_best, gbest_values, iteration>>
                ELSE /\ global_best' = s.gb
                     /\ gbest_values' = Append(gbest_values, Objective(func_bench, s.gb))
                     /\ iteration' = iteration + 1
                     /\ r_pc' = "running"
    /\ UNCHANGED <<unit, optVars, bhVars, rcVars, func_bench, run, variant, fac>>

\* The runner returns its matrix; plot goes on with the next runner, or
\* the next run, or is done.
RunnerReturn ==
    /\ unit = "runner"
    /\ r_pc = "running"
    /\ iteration = NumIterations
    /\ IF variant < Len(VariantOrder)
       THEN variant' = variant + 1 /\ run' = run /\ r_pc' = "plot"
       ELSE /\ variant' = 1
            /\ run' = run + 1
            /\ r_pc' = IF run + 1 < NumRuns THEN "plot" ELSE "done"
    /\ UNCHANGED <<unit, optVars, bhVars, rcVars, particles_position, particles_velocity,
                   personal_best, func_bench, iteration, fac, global_best,
                   gbest_values>>

\* ------------------------------------------------------ boundary handler
\* self.bh(position, bounds) on a coordinate.
ApplyBoundary ==
    /\ unit = "boundary"
    /\ bh_pc = "new"
    /\ bh_once' = periodic(bh_x, bh_lb, bh_ub)
    /\ bh_pc' = "once"
    /\ UNCHANGED <<unit, optVars, runVars, rcVars, bh_lb, bh_ub, bh_x, bh_twice>>

\* self.bh applied to the coordinate it returned.
ApplyBoundaryAgain ==
    /\ unit = "boundary"
    /\ bh_pc = "once"
    /\ bh_twice' = periodic(bh_once, bh_lb, bh_ub)
    /\ bh_pc' = "twice"
    /\ UNCHANGED <<unit, optVars, runVars, rcVars, bh_lb, bh_ub, bh_x, bh_once>>

\* ------------------------------------------------------- recalibration
\* The block under "if i%100 == False" on list_R grown by the labels of one
\* more period: self.options is adjusted from the entropy of list_R.
Recalibration ==
    /\ unit = "recalibration"
    /\ rc_count < MaxRecals
    /\ \E add \in LabelsTried :
         LET lst == [k \in Labels |-> rc_list[k] + add[k]]
             rec == Recalibrate(rc_options, lst)
         IN  /\ rc_before' = rc_options
             /\ rc_R' = entropy(lst)
             /\ rc_options' = rec.opts
             /\ rc_list' = rec.lst
    /\ rc_count' = rc_count + 1
    /\ UNCHANGED <<unit, optVars, runVars, bhVars>>

Next ==
    \/ \E f \in Objectives, n \in IterChoices : OptimizeCall(f, n, workers)
    \/ EvaluationRaises
    \/ Iterate
    \/ Return
    \/ \E f \in Objectives : plot(f)
    \/ RunnerCall
    \/ RunnerIterate
    \/ RunnerReturn
    \/ ApplyBoundary
    \/ ApplyBoundaryAgain
    \/ Recalibration

Spec == Init /\ [][Next]_vars

\* ================================================================ claims
IsFinite(c) == c # NaN /\ c # Inf /\ c # Raises

\* The order of costs in which a NaN ranks as worse than every other cost
\* (section 7 of the specification); on other costs it is <=.
CostLeq(a, b) == b = NaN \/ (a # NaN /\ a <= b)

Last(h) == h[Len(h)]

\* C1: the global best cost never gets worse: every step leaves the
\* swarm's best_cost at or below its value before the step, cost_history
\* ends with the current best_cost and each entry a runner of
\* algorithms.py records is at or below the entry before it.
C1_BestCostStep ==
    /\ CostLeq(best_cost', best_cost)
    /\ cost_history' # cost_history /\ cost_history' # <<>>
         => /\ Last(cost_history') = best_cost'
            /\ cost_history # <<>> => CostLeq(Last(cost_history'), Last(cost_history))
    /\ gbest_values' # gbest_values /\ gbest_values' # <<>> /\ gbest_values # <<>>
         => CostLeq(Last(gbest_values'), Last(gbest_values))

C1_BestCostMonotone == [][C1_BestCostStep]_vars

\* C1 witness: a run whose best cost went strictly down between two iterations.
C1_Witness ==
    /\ Len(cost_history) >= 2
    /\ cost_history[Len(cost_history)] < cost_history[1]

\* C2: within a run a particle's personal best is either left as it is or
\* replaced by the particle's position, whose cost is then strictly below
\* the cost of the personal best it replaces.
C2_PbestStep ==
    /\ pc = "loop" =>
         \A p \in Particles :
            \/ pbest_pos'[p] = pbest_pos[p] /\ pbest_cost'[p] = pbest_cost[p]
            \/ /\ pbest_pos'[p] = position[p]
               /\ pbest_cost'[p] = Objective(objective_func, position[p])
               /\ Lt(pbest_cost'[p], pbest_cost[p])
    /\ r_pc = "running" =>
         \A p \in RunnerParticles :
            \/ personal_best'[p] = personal_best[p]
            \/ /\ personal_best'[p] = particles_position'[p]
               /\ Lt(Objective(func_bench, personal_best'[p]),
                     Objective(func_bench, personal_best[p]))

C2_PbestNonIncreasing == [][C2_PbestStep]_vars

\* C2 witness: a second iteration has left a personal best at a cost
\* strictly below the cost the particle had in the first one.
C2_Witness ==
    /\ pc = "loop" /\ i >= 2
    /\ \E p \in Particles : pbest_cost[p] < cost_history[1] /\ pbest_pos[p] # position[p]

\* C3: on a new optimizer with ftol = 1e-6 and ftol_iter = 5, a constant
\* objective and iters > 5, optimize leaves the loop at iteration 5: the
\* loop index never passes 5 and the call returns after the break at 5.
C3_Scenario ==
    /\ unit = "optimizer" /\ calls = 1
    /\ ftol = FtolMicro /\ ftol_iter = 5
    /\ objective_func = "Zero" /\ iters > 5

Converged      == pc = "returned" /\ broke
MaxIterReached == pc = "returned" /\ ~broke /\ i = iters

Floored(opts) == opts.c1 >= Tenth /\ opts.c2 >= Tenth

\* C5 as stated: during a run c1 >= 0.1 and c2 >= 0.1 in every state, for
\* any starting options with c1, c2 > 0.
C5_Original == unit = "optimizer" /\ pc = "loop" => Floored(options)

\* C5 amended: every recalibration leaves c1 >= 0.1 and c2 >= 0.1, and once
\* both are at least 0.1 they stay so; options that start at 0.1 or above
\* are therefore never below 0.1, while options that start below 0.1 keep
\* their value until the first recalibration.
C5_FlooredStep ==
    /\ options' # options => Floored(options')
    /\ Floored(options) => Floored(options')
    /\ pc = "loop" /\ i' = i + 1 /\ i % RecalPeriod = 0 => Floored(options')
    /\ rc_count' # rc_count => Floored(rc_options')

C5_FloorAfterRecalibration == [][C5_FlooredStep]_vars

\* C5 witness: a recalibration has floored c1 at 0.1 on an optimizer whose
\* c1 started at 0.05.
C5_Witness ==
    /\ unit = "optimizer" /\ pc = "loop" /\ i = 1 /\ calls = 1
    /\ options.c1 = Tenth
    /\ \E c \in Callers : /\ c.options.c1 < Tenth
                          /\ ftol = c.ftol /\ ftol_iter = c.ftol_iter
                          /\ \A d \in Callers \ {c} : ftol # d.ftol \/ ftol_iter # d.ftol_iter

\* C6: no exit of an optimize call, returned or raised, leaves the pool
\* of that call open.
C6_PoolClosedOnExit ==
    unit = "optimizer" /\ pc \in {"returned", "raised"} => pool # "open"

\* C7: while some particle has a finite cost, no position of NaN or
\* infinite cost is a personal best of the optimizer or the global best of
\* either swarm.
C7_AnomalyNeverBest ==
    /\ unit = "optimizer" /\ pc = "loop" /\ i > 0 =>
         /\ \A p \in Particles : pbest_cost[p] # NaN
         /\ (\E p \in Particles : IsFinite(pbest_cost[p])) => IsFinite(best_cost)
    /\ unit = "runner" /\ r_pc = "running" /\ global_best # NoPos
         /\ (\E p \in RunnerParticles : IsFinite(Objective(func_bench, personal_best[p])))
         => IsFinite(Objective(func_bench, global_best))

\* C8: every runner call and every optimize call starts from a new swarm:
\* zero velocities, personal bests equal to the positions, and no global
\* best cost from an earlier run.
C8_FreshSwarmPerRun ==
    /\ unit = "optimizer" /\ pc = "loop" /\ i = 0 /\ cost_history = <<>> =>
         /\ \A p \in Particles : velocity[p] = 0
         /\ pbest_pos = position
         /\ best_cost = Inf
    /\ unit = "runner" /\ r_pc = "running" /\ iteration = 0 =>
         /\ \A p \in RunnerParticles : particles_velocity[p] = 0
         /\ personal_best = particles_position

\* C9: the swarm holds as many particles as the n_particles argument of
\* the constructor.
C9_SwarmSizeIsArgument ==
    /\ swarm_size = n_particles
    /\ DOMAIN position = 0..(n_particles - 1)

\* C10: the periodic boundary handler returns a coordinate of [lb, ub],
\* returns a coordinate of [lb, ub] (ub included) unchanged, and applied
\* to its own result returns that result.
C10_PeriodicIdempotent ==
    unit = "boundary" =>
        /\ bh_pc # "new" =>
              /\ bh_lb <= bh_once /\ bh_once <= bh_ub
              /\ (bh_lb <= bh_x /\ bh_x <= bh_ub) => bh_once = bh_x
        /\ bh_pc = "twice" => bh_twice = bh_once

\* C10 witness: x = ub + 10 with the bounds (-600, 600) was handled twice.
C10_Witness ==
    /\ unit = "boundary" /\ bh_pc = "twice"
    /\ bh_lb = -GbestUb /\ bh_ub = GbestUb /\ bh_x = GbestUb + 10
    /\ bh_once = 10 - GbestUb

\* C11: in the loop of optimize (c1, c2) are recalibrated in the iteration
\* of index i exactly when i is divisible by the period and the iteration
\* did not leave the loop on the ftol break, which comes before the
\* recalibration; no other step changes the options.  A recalibration
\* always changes c1 or c2, so it shows as a change of options.
C11_RecalibrationStep ==
    /\ unit = "optimizer" /\ cost_history' # cost_history /\ cost_history' # <<>>
         => (options' # options <=> (i % RecalPeriod = 0 /\ ~broke'))
    /\ ~(cost_history' # cost_history /\ cost_history' # <<>>) => options' = options

C11_RecalibrationEveryPeriod == [][C11_RecalibrationStep]_vars

\* C11 witness: the iteration of index RecalPeriod recalibrated: options
\* differ from the copy compute_velocity was handed before it.
C11_Witness ==
    /\ unit = "optimizer" /\ pc = "loop" /\ calls = 1
    /\ i = RecalPeriod + 1
    /\ swarm_options # options

\* The step of (c1, c2) the bands give for an entropy H (millionths of a
\* bit), in coefficient units: 1.0 is Scale, 0.2 is 2 * Tenth.
BandStep(H) ==
    IF H > 800000 THEN [c1 |-> Scale, c2 |-> -Scale]
    ELSE IF H > 600000 THEN [c1 |-> 2 * Tenth, c2 |-> -(2 * Tenth)]
    ELSE IF H > 300000 THEN [c1 |-> 2 * Tenth, c2 |-> 2 * Tenth]
    ELSE [c1 |-> -Scale, c2 |-> Scale]

\* The entropy the recalibration of an iteration of optimize computes:
\* that of list_R with the labels of the iteration appended.
IterationEntropy == entropy(AppendLabels(list_R, current_cost', previous_pbest_cost))

\* C12 as stated: a recalibration with entropy H adds the step of the band
\* of H to (c1, c2), nothing else, and leaves w as it was.
C12_OriginalStep ==
    /\ rc_count' # rc_count =>
         /\ rc_options'.c1 = rc_options.c1 + BandStep(rc_R').c1
         /\ rc_options'.c2 = rc_options.c2 + BandStep(rc_R').c2
         /\ rc_options'.w = rc_options.w
    /\ options' # options =>
         /\ options'.c1 = options.c1 + BandStep(IterationEntropy).c1
         /\ options'.c2 = options.c2 + BandStep(IterationEntropy).c2
         /\ options'.w = options.w

C12_Original == [][C12_OriginalStep]_vars

\* C12 amended: a recalibration with entropy H adds the step of the band of
\* H to c1 and to c2 and then raises each result to 0.1 when it is below;
\* w is left as it was.
C12_FlooredBandStep ==
    /\ rc_count' # rc_count =>
         /\ rc_options'.c1 = Max(Tenth, rc_options.c1 + BandStep(rc_R').c1)
         /\ rc_options'.c2 = Max(Tenth, rc_options.c2 + BandStep(rc_R').c2)
         /\ rc_options'.w = rc_options.w
    /\ options' # options =>
         /\ options'.c1 = Max(Tenth, options.c1 + BandStep(IterationEntropy).c1)
         /\ options'.c2 = Max(Tenth, options.c2 + BandStep(IterationEntropy).c2)
         /\ options'.w = options.w

C12_BandStepThenFloor == [][C12_FlooredBandStep]_vars

\* C12 witness: a recalibration of the third band (0.3 < H <= 0.6) came
\* after one of the first band (H > 0.8) whose step on c2 met the floor.
C12_Witness ==
    /\ unit = "recalibration" /\ rc_count = 2
    /\ rc_R > 300000 /\ rc_R <= 600000
    /\ rc_before.c2 = Tenth
    /\ rc_options.c1 = rc_before.c1 + 2 * Tenth
    /\ rc_options.c2 = rc_before.c2 + 2 * Tenth

\* Number of labels held in a list.
Size(lst) == lst[0] + lst[1] + lst[2]

\* C13: list_R is empty right after every recalibration, whichever band was
\* taken, and so never holds more labels than one period adds
\* (period * number of particles).
C13_ResetStep ==
    /\ options' # options => list_R' = EmptyList
    /\ rc_count' # rc_count => rc_list' = EmptyList
    /\ unit = "optimizer" => Size(list_R') <= RecalPeriod * swarm_size

C13_CounterResetAtEveryRecalibration == [][C13_ResetStep]_vars

\* C14: in every optimize call, on a new or a reused optimizer, each
\* iteration pushes the truth value of
\*   |best_cost after - best_cost before| < ftol * (1 + |best_cost before|)
\* into the window of size ftol_iter, and the iteration leaves the loop
\* exactly when the window is then full and all its entries are true.
C14_WindowStep ==
    unit = "optimizer" /\ cost_history' # cost_history /\ cost_history' # <<>> =>
        /\ ftol_history' = DequeAppend(ftol_history,
                                       FtolDelta(best_cost', best_cost, ftol), ftol_iter)
        /\ broke' <=> (Len(ftol_history') = ftol_iter /\ All(ftol_history'))

C14_StopsWhenWindowFullAndTrue == [][C14_WindowStep]_vars

\* C15: in every optimize call, iteration 0 (which never breaks) appends
\* the label 0 (Improved) for every particle, whatever the objective
\* returns, because previous_pbest_cost is all +infinity; the entropy is
\* then 0, the last branch is taken: c1 becomes max(0.1, c1 - 1), c2 becomes
\* max(0.1, c2 + 1), w is kept and list_R is emptied.
C15_FirstIterationStep ==
    unit = "optimizer" /\ i = 0 /\ cost_history' # cost_history /\ cost_history' # <<>> =>
        /\ ~broke'
        /\ AppendLabels(list_R, current_cost', previous_pbest_cost)
              = [k \in Labels |-> IF k = 0 THEN swarm_size ELSE 0]
        /\ IterationEntropy = 0
        /\ options' = [options EXCEPT !.c1 = Max(Tenth, options.c1 - Scale),
                                      !.c2 = Max(Tenth, options.c2 + Scale)]
        /\ list_R' = EmptyList

C15_FirstRecalibrationLastBranch == [][C15_FirstIterationStep]_vars

\* C15 witness: iteration 0 of a second call, on an objective that gave a
\* particle a NaN or infinite cost, has made its recalibration: c2 is two
\* steps of 1.0 above its starting value and list_R is empty.
C15_Witness ==
    /\ unit = "optimizer" /\ pc = "loop" /\ calls = 2 /\ i = 1
    /\ \E p \in Particles : previous_pbest_cost[p] \in {NaN, Inf}
    /\ options.c1 = Tenth
    /\ options.c2 = DefaultOptions.c2 + 2 * Scale
    /\ list_R = EmptyList

====
